---- MODULE Spec2Model ----
(***************************************************************************)
(* Model of src/pipeline/pipeline.py: a straight-line script that prints   *)
(* its argument vector, parses sys.argv[1] with int(), builds a two-row    *)
(* DataFrame, adds a constant month column, prints df.head() and writes    *)
(* the frame to output_<month>.parquet.  The file system outlives a        *)
(* process, so the model lets the script be invoked several times over the *)
(* same file system.                                                       *)
(***************************************************************************)
EXTENDS Integers, Sequences, FiniteSets, TLC

VARIABLES pc,          \* position of the running process / its final state
          argv,        \* sys.argv: <<script, arg1, ...>>, arguments are char sequences
          day,         \* <<>> while unbound, <<n>> once line 6 has bound it
          df,          \* <<>> while unbound, <<frame>> once line 9 has bound it
          month,       \* <<>> before line 10, <<2>> after it
          stdout,      \* lines printed by this process
          exitStatus,  \* NoExit while running, then the process exit status
          fs,          \* the working directory: path -> file content
          steps,       \* statements this process has started, in order
          written,     \* <<>> or <<[path, table, ok]>>: the to_parquet call of this process
          fsAtStart,   \* the working directory when this process started
          nruns,       \* number of invocations so far (this one included)
          sameArgOk,   \* every earlier invocation succeeded and had this argv
          firstOk,     \* <<>> or <<record of the first successful earlier invocation>>
          writeReached,\* some invocation has started the to_parquet call
          everWritten  \* some invocation has completed the to_parquet call

vars == <<pc, argv, day, df, month, stdout, exitStatus, fs, steps, written,
          fsAtStart, nruns, sameArgOk, firstOk, writeReached, everWritten>>

---------------------------------------------------------------------------
(* Bounds *)
MaxLen == 2     \* longest generated argument string
MaxRuns == 3    \* invocations over one file system

(* Program constants *)
MonthValue == 2     \* pipeline.py line 10
HeadRows == 5       \* pandas DataFrame.head() default n
NoExit == -1        \* the process is still running
ExitOk == 0         \* interpreter exit status at end of script
ExitError == 1      \* interpreter exit status on an uncaught exception

---------------------------------------------------------------------------
(* Strings are sequences of one-character strings. *)
DigitChars == <<"0", "1", "2", "3", "4", "5", "6", "7", "8", "9">>

IsDigit(c) == \E i \in 1..10 : DigitChars[i] = c

DigitVal(c) == (CHOOSE i \in 1..10 : DigitChars[i] = c) - 1

IsSpace(c) == c = " "

RECURSIVE LStrip(_)
LStrip(s) == IF s # <<>> /\ IsSpace(Head(s)) THEN LStrip(Tail(s)) ELSE s

RECURSIVE RStrip(_)
RStrip(s) == IF s # <<>> /\ IsSpace(s[Len(s)]) THEN RStrip(SubSeq(s, 1, Len(s) - 1)) ELSE s

Strip(s) == RStrip(LStrip(s))

HasSign(s) == s # <<>> /\ Head(s) \in {"+", "-"}

Body(s) == IF HasSign(Strip(s)) THEN Tail(Strip(s)) ELSE Strip(s)

(* int(str) with base 10: surrounding whitespace, one optional sign, then   *)
(* digits, with single underscores allowed between digits.                  *)
IsIntLiteral(s) ==
    LET b == Body(s) IN
    /\ b # <<>>
    /\ \A i \in 1..Len(b) : IsDigit(b[i]) \/ b[i] = "_"
    /\ IsDigit(b[1])
    /\ IsDigit(b[Len(b)])
    /\ \A i \in 1..(Len(b) - 1) : ~(b[i] = "_" /\ b[i + 1] = "_")

RECURSIVE DigitsValue(_, _)
DigitsValue(b, acc) ==
    IF b = <<>> THEN acc
    ELSE IF Head(b) = "_" THEN DigitsValue(Tail(b), acc)
    ELSE DigitsValue(Tail(b), 10 * acc + DigitVal(Head(b)))

ParseInt(s) ==
    LET t == Strip(s) IN
    IF HasSign(t) /\ Head(t) = "-" THEN 0 - DigitsValue(Body(s), 0)
    ELSE DigitsValue(Body(s), 0)

(* str(int), as used by the f-strings of lines 7 and 13. *)
RECURSIVE FormatNat(_)
FormatNat(n) ==
    IF n < 10 THEN <<DigitChars[n + 1]>>
    ELSE FormatNat(n \div 10) \o <<DigitChars[(n % 10) + 1]>>

FormatInt(n) == IF n < 0 THEN <<"-">> \o FormatNat(0 - n) ELSE FormatNat(n)

---------------------------------------------------------------------------
(* Inputs *)
Alphabet == {"0", "3", "-", "a"}

RECURSIVE StringsUpTo(_)
StringsUpTo(n) ==
    IF n = 0 THEN {<<>>}
    ELSE LET shorter == StringsUpTo(n - 1) IN
         shorter \cup {Append(s, c) : s \in {t \in shorter : Len(t) = n - 1}, c \in Alphabet}

SampleArgs ==
    { <<"a", "b", "c">>, <<"+", "3">>, <<" ", "3", " ">>, <<"3", "_", "0">>,
      <<"3", "_">>, <<"3", ".", "5">>, <<"-", " ", "3">> }

ArgStrings == StringsUpTo(MaxLen) \cup SampleArgs

Script == <<"pipeline.py">>

ArgVectors ==
    {<<Script>>} \cup {<<Script, s>> : s \in ArgStrings}
                 \cup {<<Script, <<"3">>, <<"a">>>>}

---------------------------------------------------------------------------
(* pandas DataFrame: ordered column labels and one value list per column. *)
NewDataFrame ==
    [columns |-> <<"day", "num_passengers">>,
     data    |-> ("day" :> <<1, 2>>) @@ ("num_passengers" :> <<3, 4>>)]

NRows(f) == IF f.columns = <<>> THEN 0 ELSE Len(f.data[f.columns[1]])

HasColumn(f, name) == \E i \in 1..Len(f.columns) : f.columns[i] = name

(* Variant of SetColumn that stores the values but not the new label. *)
SetColumn_NoLabel(f, name, v) ==
    [columns |-> f.columns,
     data    |-> (name :> [i \in 1..NRows(f) |-> v]) @@ f.data]

(* df[name] = scalar: the scalar is broadcast to every row; a new label is *)
(* appended after the existing ones.                                       *)
SetColumn(f, name, v) ==
    [columns |-> IF HasColumn(f, name) THEN f.columns ELSE Append(f.columns, name),
     data    |-> (name :> [i \in 1..NRows(f) |-> v]) @@ f.data]

Min(a, b) == IF a < b THEN a ELSE b

(* df.head(n): the first n rows, all columns. *)
HeadOf(f, n) ==
    [columns |-> f.columns,
     data    |-> [c \in DOMAIN f.data |-> SubSeq(f.data[c], 1, Min(n, NRows(f)))]]

(* The rows of a frame, in order, each a record over the column labels. *)
Rows(f) ==
    [i \in 1..NRows(f) |->
        [c \in {f.columns[k] : k \in 1..Len(f.columns)} |-> f.data[c][i]]]

(* Variant of OutputPath that names the file after the parsed day. *)
OutputPath_FromDay(m) == <<"output_">> \o FormatInt(day[1]) \o <<".parquet">>

(* f"output_{month}.parquet" *)
OutputPath(m) == <<"output_">> \o FormatInt(m) \o <<".parquet">>

(* A file left behind by a write that failed part-way: no readable table. *)
Truncated == [columns |-> <<>>, data |-> <<>>]

(* Variant of ToParquet that appends the rows to an existing file. *)
ToParquet_Append(dir, path, f) ==
    IF path \in DOMAIN dir
      THEN (path :> [columns |-> f.columns,
                     data |-> [c \in DOMAIN f.data |->
                                 (IF c \in DOMAIN dir[path].data
                                    THEN dir[path].data[c] ELSE <<>>) \o f.data[c]]])
           @@ dir
      ELSE (path :> f) @@ dir

(* df.to_parquet(path): the file at path is created or replaced. *)
ToParquet(dir, path, f) == (path :> f) @@ dir

---------------------------------------------------------------------------
Final == {"done", "err_missing", "err_parse", "err_write"}

Init ==
    /\ pc = "print_args"
    /\ argv \in ArgVectors
    /\ day = <<>>
    /\ df = <<>>
    /\ month = <<>>
    /\ stdout = <<>>
    /\ exitStatus = NoExit
    /\ fs = <<>>
    /\ steps = <<>>
    /\ written = <<>>
    /\ fsAtStart = <<>>
    /\ nruns = 1
    /\ sameArgOk = TRUE
    /\ firstOk = <<>>
    /\ writeReached = FALSE
    /\ everWritten = FALSE

History == <<fsAtStart, nruns, sameArgOk, firstOk>>

(* Variant of PrintArgs that prints nothing. *)
PrintArgs_Silent ==
    /\ pc = "print_args"
    /\ steps' = Append(steps, "print_args")
    /\ pc' = "parse"
    /\ UNCHANGED <<argv, day, df, month, stdout, exitStatus, fs, written, History,
                   writeReached, everWritten>>

(* line 5: print("arguments", sys.argv) *)
PrintArgs ==
    /\ pc = "print_args"
    /\ stdout' = Append(stdout, <<"arguments", argv>>)
    /\ steps' = Append(steps, "print_args")
    /\ pc' = "parse"
    /\ UNCHANGED <<argv, day, df, month, exitStatus, fs, written, History,
                   writeReached, everWritten>>

(* Variant of ParseDay that takes an unparseable argument as day 0. *)
ParseDay_Lenient ==
    /\ pc = "parse"
    /\ steps' = Append(steps, "parse")
    /\ IF Len(argv) < 2
         THEN /\ pc' = "err_missing"
              /\ exitStatus' = ExitError
              /\ day' = day
         ELSE /\ pc' = "print_day"
              /\ exitStatus' = exitStatus
              /\ day' = IF IsIntLiteral(argv[2]) THEN <<ParseInt(argv[2])>> ELSE <<0>>
    /\ UNCHANGED <<argv, df, month, stdout, fs, written, History,
                   writeReached, everWritten>>

(* Variant of ParseDay that reports a missing argument as a parse error. *)
ParseDay_OneError ==
    /\ pc = "parse"
    /\ steps' = Append(steps, "parse")
    /\ IF Len(argv) < 2 \/ ~IsIntLiteral(argv[2])
         THEN /\ pc' = "err_parse"
              /\ exitStatus' = ExitError
              /\ day' = day
         ELSE /\ pc' = "print_day"
              /\ exitStatus' = exitStatus
              /\ day' = <<ParseInt(argv[2])>>
    /\ UNCHANGED <<argv, df, month, stdout, fs, written, History,
                   writeReached, everWritten>>

(* Variant of ParseDay that removes the output files when it fails. *)
ParseDay_Cleanup ==
    /\ pc = "parse"
    /\ steps' = Append(steps, "parse")
    /\ IF Len(argv) < 2
         THEN /\ pc' = "err_missing"
              /\ exitStatus' = ExitError
              /\ day' = day
              /\ fs' = <<>>
         ELSE IF ~IsIntLiteral(argv[2])
         THEN /\ pc' = "err_parse"
              /\ exitStatus' = ExitError
              /\ day' = day
              /\ fs' = <<>>
         ELSE /\ pc' = "print_day"
              /\ exitStatus' = exitStatus
              /\ day' = <<ParseInt(argv[2])>>
              /\ fs' = fs
    /\ UNCHANGED <<argv, df, month, stdout, written, History,
                   writeReached, everWritten>>

(* line 6: day = int(sys.argv[1]); IndexError and ValueError are uncaught *)
ParseDay ==
    /\ pc = "parse"
    /\ steps' = Append(steps, "parse")
    /\ IF Len(argv) < 2
         THEN /\ pc' = "err_missing"
              /\ exitStatus' = ExitError
              /\ day' = day
         ELSE IF ~IsIntLiteral(argv[2])
         THEN /\ pc' = "err_parse"
              /\ exitStatus' = ExitError
              /\ day' = day
         ELSE /\ pc' = "print_day"
              /\ exitStatus' = exitStatus
              /\ day' = <<ParseInt(argv[2])>>
    /\ UNCHANGED <<argv, df, month, stdout, fs, written, History,
                   writeReached, everWritten>>

(* Variant of PrintDay that prints only for a positive day. *)
PrintDay_Conditional ==
    /\ pc = "print_day"
    /\ stdout' = IF day[1] > 0
                   THEN Append(stdout, <<"Running pipeline for day ", FormatInt(day[1])>>)
                   ELSE stdout
    /\ steps' = Append(steps, "print_day")
    /\ pc' = "construct"
    /\ UNCHANGED <<argv, day, df, month, exitStatus, fs, written, History,
                   writeReached, everWritten>>

(* line 7: print(f"Running pipeline for day {day}") *)
PrintDay ==
    /\ pc = "print_day"
    /\ stdout' = Append(stdout, <<"Running pipeline for day ", FormatInt(day[1])>>)
    /\ steps' = Append(steps, "print_day")
    /\ pc' = "construct"
    /\ UNCHANGED <<argv, day, df, month, exitStatus, fs, written, History,
                   writeReached, everWritten>>

(* line 9: df = pd.DataFrame({...}) *)
Construct ==
    /\ pc = "construct"
    /\ df' = <<NewDataFrame>>
    /\ steps' = Append(steps, "construct")
    /\ pc' = "set_month"
    /\ UNCHANGED <<argv, day, month, stdout, exitStatus, fs, written, History,
                   writeReached, everWritten>>

(* lines 10-11: month = 2; df['month'] = month *)
SetMonth ==
    /\ pc = "set_month"
    /\ month' = <<MonthValue>>
    /\ df' = <<SetColumn(df[1], "month", month'[1])>>
    /\ steps' = Append(steps, "set_month")
    /\ pc' = "print_head"
    /\ UNCHANGED <<argv, day, stdout, exitStatus, fs, written, History,
                   writeReached, everWritten>>

(* line 12: print(df.head()) *)
PrintHead ==
    /\ pc = "print_head"
    /\ stdout' = Append(stdout, <<"head", HeadOf(df[1], HeadRows)>>)
    /\ steps' = Append(steps, "print_head")
    /\ pc' = "write"
    /\ UNCHANGED <<argv, day, df, month, exitStatus, fs, written, History,
                   writeReached, everWritten>>

(* Variant of WriteParquet that swallows the writer's exception. *)
WriteParquet_Swallow ==
    /\ pc = "write"
    /\ steps' = Append(steps, "write")
    /\ writeReached' = TRUE
    /\ LET path == OutputPath(month[1]) IN
       /\ \E outcome \in {"ok", "fail_before_open", "fail_after_open"} :
            /\ written' = <<[path |-> path, table |-> df[1], ok |-> (outcome = "ok")]>>
            /\ fs' = CASE outcome = "ok" -> ToParquet(fs, path, df[1])
                       [] outcome = "fail_before_open" -> fs
                       [] outcome = "fail_after_open" -> ToParquet(fs, path, Truncated)
            /\ pc' = "done"
            /\ exitStatus' = ExitOk
            /\ everWritten' = (everWritten \/ outcome = "ok")
    /\ UNCHANGED <<argv, day, df, month, stdout, History>>

(* Variant of WriteParquet that waits for an existing output file to go away. *)
WriteParquet_Block ==
    /\ pc = "write"
    /\ OutputPath(month[1]) \notin DOMAIN fs
    /\ steps' = Append(steps, "write")
    /\ writeReached' = TRUE
    /\ LET path == OutputPath(month[1]) IN
       /\ \E outcome \in {"ok", "fail_before_open", "fail_after_open"} :
            /\ written' = <<[path |-> path, table |-> df[1], ok |-> (outcome = "ok")]>>
            /\ fs' = CASE outcome = "ok" -> ToParquet(fs, path, df[1])
                       [] outcome = "fail_before_open" -> fs
                       [] outcome = "fail_after_open" -> ToParquet(fs, path, Truncated)
            /\ pc' = IF outcome = "ok" THEN "done" ELSE "err_write"
            /\ exitStatus' = IF outcome = "ok" THEN ExitOk ELSE ExitError
            /\ everWritten' = (everWritten \/ outcome = "ok")
    /\ UNCHANGED <<argv, day, df, month, stdout, History>>

(* line 13: df.to_parquet(f"output_{month}.parquet"), then end of script.  *)
(* The writer may raise OSError before it opens the file (the directory is *)
(* left as it was) or after it has opened it (a truncated file is left).   *)
WriteParquet ==
    /\ pc = "write"
    /\ steps' = Append(steps, "write")
    /\ writeReached' = TRUE
    /\ LET path == OutputPath(month[1]) IN
       /\ \E outcome \in {"ok", "fail_before_open", "fail_after_open"} :
            /\ written' = <<[path |-> path, table |-> df[1], ok |-> (outcome = "ok")]>>
            /\ CASE outcome = "ok" ->
                    /\ fs' = ToParquet(fs, path, df[1])
                    /\ pc' = "done"
                    /\ exitStatus' = ExitOk
                    /\ everWritten' = TRUE
              [] outcome = "fail_before_open" ->
                    /\ fs' = fs
                    /\ pc' = "err_write"
                    /\ exitStatus' = ExitError
                    /\ everWritten' = everWritten
              [] outcome = "fail_after_open" ->
                    /\ fs' = ToParquet(fs, path, Truncated)
                    /\ pc' = "err_write"
                    /\ exitStatus' = ExitError
                    /\ everWritten' = everWritten
    /\ UNCHANGED <<argv, day, df, month, stdout, History>>

(* The script is invoked again in the same working directory: a new        *)
(* process, with nothing carried over but the file system.                 *)
Invoke ==
    /\ pc \in Final
    /\ nruns < MaxRuns
    /\ argv' \in ArgVectors
    /\ pc' = "print_args"
    /\ day' = <<>>
    /\ df' = <<>>
    /\ month' = <<>>
    /\ stdout' = <<>>
    /\ exitStatus' = NoExit
    /\ steps' = <<>>
    /\ written' = <<>>
    /\ fsAtStart' = fs
    /\ nruns' = nruns + 1
    /\ sameArgOk' = (sameArgOk /\ pc = "done" /\ argv' = argv)
    /\ firstOk' = IF firstOk = <<>> /\ pc = "done"
                    THEN <<[day |-> day[1], out |-> stdout,
                            path |-> written[1].path, table |-> written[1].table,
                            fs |-> fs]>>
                    ELSE firstOk
    /\ UNCHANGED <<fs, writeReached, everWritten>>

Step == PrintArgs \/ ParseDay \/ PrintDay \/ Construct \/ SetMonth \/ PrintHead
        \/ WriteParquet

Next == PrintArgs \/ ParseDay \/ PrintDay \/ Construct \/ SetMonth \/ PrintHead
        \/ WriteParquet \/ Invoke

Spec == Init /\ [][Next]_vars

(* The interpreter runs every statement of a started process to the end.   *)
FairSpec == Spec /\ WF_vars(Step)

---------------------------------------------------------------------------
(* Vocabulary of the properties *)
Path2 == <<"output_", "2", ".parquet">>

ExpectedColumns == <<"day", "num_passengers", "month">>

ExpectedRows ==
    << [day |-> 1, num_passengers |-> 3, month |-> 2],
       [day |-> 2, num_passengers |-> 4, month |-> 2] >>

StepOrder ==
    <<"print_args", "parse", "print_day", "construct", "set_month", "print_head", "write">>

IsPrefix(s, t) == Len(s) <= Len(t) /\ SubSeq(t, 1, Len(s)) = s

Count(s, x) == Cardinality({i \in 1..Len(s) : s[i] = x})

HasArg == Len(argv) >= 2

ArgParses == HasArg /\ IsIntLiteral(argv[2])

Rank(p) ==
    CASE p = "print_args" -> 1
      [] p = "parse"      -> 2
      [] p = "print_day"  -> 3
      [] p = "construct"  -> 4
      [] p = "set_month"  -> 5
      [] p = "print_head" -> 6
      [] p = "write"      -> 7
      [] OTHER            -> 8

---------------------------------------------------------------------------
(* C1: a finished run whose first argument parses as an integer and whose  *)
(* write did not fail has exit status 0, and output_2.parquet holds the    *)
(* columns day, num_passengers, month and exactly the rows (1,3,2), (2,4,2)*)
(* in this order.                                                          *)
C1_SuccessOutput ==
    (pc \in Final /\ ArgParses /\ pc # "err_write") =>
        /\ pc = "done"
        /\ exitStatus = 0
        /\ Path2 \in DOMAIN fs
        /\ fs[Path2].columns = ExpectedColumns
        /\ Rows(fs[Path2]) = ExpectedRows

C1_Witness ==
    /\ pc = "done"
    /\ argv = <<Script, <<"3">>>>
    /\ Path2 \in DOMAIN fs
    /\ Len(Rows(fs[Path2])) = 2

(* C2: a run whose first argument does not parse as an integer never gets  *)
(* past the parse step; it ends in the parse-error state with a nonzero    *)
(* exit status, the write is never started and the directory is left as    *)
(* the run found it.                                                       *)
C2_ParseError ==
    (HasArg /\ ~IsIntLiteral(argv[2])) =>
        /\ pc \in {"print_args", "parse", "err_parse"}
        /\ written = <<>>
        /\ Count(steps, "write") = 0
        /\ fs = fsAtStart
        /\ (pc \in Final => pc = "err_parse" /\ exitStatus > 0)

C2_Witness ==
    /\ pc = "err_parse"
    /\ argv = <<Script, <<"a", "b", "c">>>>
    /\ exitStatus = 1
    /\ Path2 \notin DOMAIN fs

(* C3: a run without a command-line argument never gets past the parse     *)
(* step; it ends in the missing-argument state, which is not the           *)
(* parse-error state, with a nonzero exit status, the write is never       *)
(* started and the directory is left as the run found it.                  *)
C3_MissingArgument ==
    (~HasArg) =>
        /\ pc \in {"print_args", "parse", "err_missing"}
        /\ pc # "err_parse"
        /\ written = <<>>
        /\ Count(steps, "write") = 0
        /\ fs = fsAtStart
        /\ (pc \in Final => pc = "err_missing" /\ exitStatus > 0)

C3_Witness ==
    /\ pc = "err_missing"
    /\ argv = <<Script>>
    /\ exitStatus = 1
    /\ fs = <<>>

(* C4: a successful run writes the same path, output_2.parquet, and the    *)
(* same table, with month 2 in every row, as the first successful run      *)
(* before it, and leaves the same directory, whatever the two parsed days  *)
(* are; when the days differ the printed lines differ.                     *)
C4_DayIndependent ==
    (pc = "done" /\ firstOk # <<>>) =>
        /\ written[1].path = firstOk[1].path
        /\ written[1].path = Path2
        /\ written[1].table = firstOk[1].table
        /\ \A i \in 1..NRows(written[1].table) : Rows(written[1].table)[i].month = 2
        /\ fs = firstOk[1].fs
        /\ (day[1] # firstOk[1].day => stdout # firstOk[1].out)

C4_Witness ==
    /\ pc = "done"
    /\ firstOk # <<>>
    /\ firstOk[1].day < 0
    /\ day[1] = 0
    /\ stdout # firstOk[1].out

(* C5: after n >= 1 successful consecutive runs with the same argument the *)
(* directory holds output_2.parquet and nothing else, and is the directory *)
(* the first of these runs left.                                           *)
C5_IdempotentWrite ==
    (pc = "done" /\ sameArgOk) =>
        /\ DOMAIN fs = {Path2}
        /\ (firstOk # <<>> => fs = firstOk[1].fs)
        /\ NRows(fs[Path2]) = 2

C5_Witness ==
    /\ pc = "done"
    /\ sameArgOk
    /\ nruns >= 3
    /\ firstOk # <<>>
    /\ fs = firstOk[1].fs

(* C6: the exit status is 0 exactly when the run completed the write;      *)
(* every failure state has a nonzero exit status; once the exit status is  *)
(* set the run is in a final state and the last statement it started is    *)
(* the one that ended it; no statement is started twice.                   *)
C6_FatalFailures ==
    /\ (exitStatus = 0 <=> (written # <<>> /\ written[1].ok))
    /\ (exitStatus = 0 <=> pc = "done")
    /\ (pc \in {"err_missing", "err_parse", "err_write"} => exitStatus > 0)
    /\ (exitStatus # NoExit => pc \in Final)
    /\ (pc \in {"err_missing", "err_parse"} => steps = <<"print_args", "parse">>)
    /\ (pc \in {"err_write", "done"} => steps = StepOrder)
    /\ \A i \in 1..Len(StepOrder) : Count(steps, StepOrder[i]) <= 1

C6_Witness ==
    /\ pc = "err_write"
    /\ exitStatus = 1
    /\ written # <<>>
    /\ ~written[1].ok
    /\ nruns = 1

(* C7: a finished run whose argument parses has printed exactly three      *)
(* lines (the argument list, the day message, the table head) and has      *)
(* started the write exactly once; no run starts the write twice.          *)
C7_UnconditionalEffects ==
    /\ Count(steps, "write") <= 1
    /\ (pc \in Final /\ ArgParses) =>
          /\ Len(stdout) = 3
          /\ stdout[1][1] = "arguments"
          /\ stdout[2][1] = "Running pipeline for day "
          /\ stdout[3][1] = "head"
          /\ Count(steps, "write") = 1
          /\ written # <<>>

C7_Witness ==
    /\ pc \in Final
    /\ ArgParses
    /\ ParseInt(argv[2]) < 0
    /\ Len(stdout) = 3
    /\ Count(steps, "write") = 1

(* C8: the statements a run has started are a prefix of the fixed order    *)
(* print arguments, parse, print day, construct, set month, print head,    *)
(* write; the argument list is printed before the parse, so a run that     *)
(* failed in the parse has printed it; a printed or written table has its  *)
(* month column; a successful run has started every step, the write last.  *)
C8_FixedOrder ==
    /\ IsPrefix(steps, StepOrder)
    /\ (Count(steps, "parse") = 1 =>
            Len(stdout) >= 1 /\ stdout[1] = <<"arguments", argv>>)
    /\ (pc \in {"err_missing", "err_parse"} => stdout = <<<<"arguments", argv>>>>)
    /\ (Len(stdout) >= 3 =>
            stdout[3][1] = "head" /\ HasColumn(stdout[3][2], "month"))
    /\ (written # <<>> => HasColumn(written[1].table, "month"))
    /\ (pc = "done" => steps = StepOrder /\ steps[Len(steps)] = "write")

C8_Witness ==
    /\ pc = "done"
    /\ steps = StepOrder
    /\ Len(stdout) = 3
    /\ HasColumn(stdout[3][2], "month")
    /\ nruns = 2

(* C9: under the interpreter's progress, every run that is not finished    *)
(* eventually reaches one of the final states done, err_missing, err_parse,*)
(* err_write, and within a run the position only moves forward (a position *)
(* changes to a later one, or a finished run gives way to a new process).  *)
C9_Terminates ==
    /\ [](pc \notin Final => <>(pc \in Final))
    /\ [][(pc' # pc) => (Rank(pc') > Rank(pc) \/ (pc \in Final /\ pc' = "print_args"))]_vars

C9_Witness ==
    /\ pc \in Final
    /\ nruns = MaxRuns
    /\ pc = "err_write"

====
